---------------------------- MODULE Spec2Model ----------------------------
(***************************************************************************)
(* Model of the video editing pipeline of src/app/editor.py                *)
(* (process_videos) and of the HTTP handler that calls it, src/app/main.py *)
(* (edit_videos).                                                          *)
(*                                                                         *)
(* A request uploads an ordered list of video files.  process_videos       *)
(* converts each file to temp_audio_<idx>.wav, transcribes it, asks the    *)
(* decision step (the language model) for an edit plan, parses the answer, *)
(* cuts one ffmpeg input per plan interval, concatenates the video and the *)
(* audio streams and writes ai_output.mp4; edit_videos then moves that     *)
(* file to outputs/ai_output.mp4.                                          *)
(*                                                                         *)
(* The working directory (temp_audio_<idx>.wav, ai_output.mp4) and         *)
(* outputs/ai_output.mp4 are named by fixed relative paths, so they are    *)
(* one state shared by all requests.  Every blocking external call (an     *)
(* ffmpeg run, the transcription call, the decision call, the move) is a   *)
(* step; the code between two calls, the except/finally handlers included, *)
(* belongs to the step that runs it.  Times are whole numbers of an        *)
(* arbitrary unit.                                                         *)
(*                                                                         *)
(* Three specifications share the actions.  Spec runs one request over     *)
(* every plan within the bounds.  SpecSerial runs two requests one after   *)
(* the other: process_videos holds no await, so inside one event loop a    *)
(* request runs to its end before the next one starts.  SpecConc           *)
(* interleaves the steps of two requests, as worker processes started in   *)
(* the same directory do.                                                  *)
(*                                                                         *)
(* Left out: original_transcripts and the is_filler flag of a word, which  *)
(* no step reads back.                                                     *)
(*                                                                         *)
(* main.py calls editor.process_videos on a VideoEditor object;  editor.py *)
(* defines process_videos as a module-level coroutine, which is the code   *)
(* modelled as the callee.                                                 *)
(***************************************************************************)
EXTENDS Integers, Sequences, FiniteSets, TLC

\* Bounds of the model.
MaxPlan == 2
MaxTime == 3

Requests == {"r1", "r2"}
FileNames == {"fileA", "fileB"}
\* The uploads of a request: fileB is a source of the request only in the
\* second list.
VideoFileLists == {<<"fileA">>, <<"fileA", "fileB">>}
Times == 0 .. MaxTime

\* One element of "transcription_sources" as the decision step returns it.
Interval == [file : FileNames, start : Times, end : Times]
Plans(n) == UNION {[1 .. k -> Interval] : k \in 0 .. n}
\* The plans the specification names in its scenarios: the alternating
\* three-interval plan and the inverted interval start=5, end=3.
ScenarioPlans ==
    {<<[file |-> "fileA", start |-> 0, end |-> 1],
       [file |-> "fileB", start |-> 0, end |-> 1],
       [file |-> "fileA", start |-> 1, end |-> 2]>>,
     <<[file |-> "fileA", start |-> 5, end |-> 3]>>}
\* The plans drawn when two requests run side by side.
ConcPlans == {<<>>, <<[file |-> "fileA", start |-> 0, end |-> 1]>>}

Range(s) == {s[i] : i \in DOMAIN s}

VARIABLES
    pc,                    \* position of each request
    video_files,           \* the request's uploaded files, in order
    idx,                   \* loop index of the convert/transcribe loop
    temp_files,            \* names appended to temp_files (the idx of each)
    simplified_words,      \* the word model sent to the decision step
    response,              \* raw text returned by the decision step
    editing_instructions,  \* edited_transcript_json['transcription_sources']
    inputs,                \* one ffmpeg input per plan interval
    result,                \* the dict process_videos returned
    err,                   \* the exception that ended the request
    llm_calls,             \* calls of the decision step
    transcodes,            \* invocations of the assembly run (output.run())
    temp,                  \* working directory: temp_audio_<idx>.wav
    cwd_out,               \* working directory: ai_output.mp4
    final_out              \* outputs/ai_output.mp4

vars == <<pc, video_files, idx, temp_files, simplified_words, response,
          editing_instructions, inputs, result, err, llm_calls, transcodes,
          temp, cwd_out, final_out>>

\* ---------------------------------------------------------------- files

NoTemp == [kind |-> "none", by |-> "-", src |-> "-", partial |-> FALSE]
Wav(r, f, p) == [kind |-> "wav", by |-> r, src |-> f, partial |-> p]
NoOut == [kind |-> "none", by |-> "-", video |-> <<>>, audio |-> <<>>,
          partial |-> FALSE]
Mp4(r, v, a, p) == [kind |-> "mp4", by |-> r, video |-> v, audio |-> a,
                    partial |-> p]

\* temp_wav = f'temp_audio_{idx}.wav': the name depends on idx alone.
TempWav(i) == i
TempNames == {TempWav(i) : i \in 0 .. 1}

\* ------------------------------------------------------ decision output

NoResponse == [kind |-> "none", keys |-> {}, transcription_sources |-> <<>>]
Keys == {"transcription_sources", "desired_transcription"}
\* The decision step's answer: text that is not JSON, or a JSON object with
\* any subset of the two keys.
Responses(P) ==
    {[kind |-> "text", keys |-> {}, transcription_sources |-> <<>>]}
    \cup {[kind |-> "json", keys |-> K, transcription_sources |-> p] :
            K \in SUBSET Keys \ {{}, {"desired_transcription"}}, p \in P}
    \cup {[kind |-> "json", keys |-> K, transcription_sources |-> <<>>] :
            K \in {{}, {"desired_transcription"}}}

HasKey_Always(resp, k) == TRUE
\* edited_transcript_json[k] raises KeyError unless the key is present.
HasKey(resp, k) == k \in resp.keys

\* ------------------------------------------------------------- assembly

\* The words the transcription of an audio file yields, tagged with the
\* video file of the loop iteration.
Words(src, video_file) ==
    <<[word |-> src, start |-> 0, end |-> 1, file |-> video_file]>>

RECURSIVE MergeOverlaps(_)
Overlap(a, b) ==
    /\ a.file = b.file
    /\ a.start < a.end /\ b.start < b.end
    /\ a.start < b.end /\ b.start < a.end
Min(a, b) == IF a < b THEN a ELSE b
Max(a, b) == IF a < b THEN b ELSE a
\* Consecutive overlapping same-file intervals replaced by their span.
MergeOverlaps(p) ==
    IF Len(p) < 2 THEN p
    ELSE IF Overlap(p[1], p[2])
         THEN MergeOverlaps(<<[file |-> p[1].file,
                               start |-> Min(p[1].start, p[2].start),
                               end |-> Max(p[1].end, p[2].end)]>>
                            \o SubSeq(p, 3, Len(p)))
         ELSE <<p[1]>> \o MergeOverlaps(Tail(p))

Cut(c) == [file |-> c.file, ss |-> c.start, t |-> c.end - c.start]
Inputs_GroupedByFile(plan) ==
    LET g == SelectSeq(plan, LAMBDA c : c.file = "fileA")
             \o SelectSeq(plan, LAMBDA c : c.file = "fileB")
    IN  [i \in 1 .. Len(g) |-> Cut(g[i])]
Inputs_Merged(plan) ==
    LET m == MergeOverlaps(plan) IN [i \in 1 .. Len(m) |-> Cut(m[i])]
\* inputs = [ffmpeg.input(cut['file'], ss=cut['start'],
\*                        t=cut['end']-cut['start']) for cut in ...]
Inputs(plan) == [i \in 1 .. Len(plan) |-> Cut(plan[i])]

\* input.video and input.audio of one ffmpeg input.
VideoOf(inp) == [stream |-> "v", file |-> inp.file, ss |-> inp.ss, t |-> inp.t]
AudioOf(inp) == [stream |-> "a", file |-> inp.file, ss |-> inp.ss, t |-> inp.t]
StreamPairs(inps) == [i \in 1 .. Len(inps) |-> <<VideoOf(inps[i]), AudioOf(inps[i])>>]
ConcatVideo(pairs) == [i \in 1 .. Len(pairs) |-> pairs[i][1]]
ConcatAudio_Reversed(pairs) ==
    [i \in 1 .. Len(pairs) |-> pairs[Len(pairs) + 1 - i][2]]
ConcatAudio(pairs) == [i \in 1 .. Len(pairs) |-> pairs[i][2]]

Cleanup_SkipsLast(tmp, tfs) ==
    [n \in DOMAIN tmp |->
        IF n \in Range(SubSeq(tfs, 1, Len(tfs) - 1)) THEN NoTemp ELSE tmp[n]]
\* finally: every name in temp_files that exists is removed.
Cleanup(tmp, tfs) ==
    [n \in DOMAIN tmp |-> IF n \in Range(tfs) THEN NoTemp ELSE tmp[n]]

\* ----------------------------------------------------------------- init

NoResult == [returned |-> FALSE, output_file |-> "-", word_timestamps |-> <<>>]

Init ==
    /\ pc = [r \in Requests |-> "idle"]
    /\ video_files = [r \in Requests |-> <<>>]
    /\ idx = [r \in Requests |-> 0]
    /\ temp_files = [r \in Requests |-> <<>>]
    /\ simplified_words = [r \in Requests |-> <<>>]
    /\ response = [r \in Requests |-> NoResponse]
    /\ editing_instructions = [r \in Requests |-> <<>>]
    /\ inputs = [r \in Requests |-> <<>>]
    /\ result = [r \in Requests |-> NoResult]
    /\ err = [r \in Requests |-> "none"]
    /\ llm_calls = [r \in Requests |-> 0]
    /\ transcodes = [r \in Requests |-> 0]
    /\ temp = [n \in TempNames |-> NoTemp]
    /\ cwd_out = NoOut
    /\ final_out = NoOut

\* -------------------------------------------------------------- actions

\* An exception leaves process_videos: the finally block has run.
Raised(r, e, tmp, tfs) ==
    /\ pc' = [pc EXCEPT ![r] = "raised"]
    /\ err' = [err EXCEPT ![r] = e]
    /\ temp' = Cleanup(tmp, tfs)

\* edit_videos saves the uploads and calls process_videos.
Start(r, lists) ==
    /\ pc[r] = "idle"
    /\ \E vf \in lists : video_files' = [video_files EXCEPT ![r] = vf]
    /\ pc' = [pc EXCEPT ![r] = "convert"]
    /\ UNCHANGED <<idx, temp_files, simplified_words, response,
                   editing_instructions, inputs, result, err, llm_calls,
                   transcodes, temp, cwd_out, final_out>>

\* One loop iteration up to the end of the ffmpeg run that writes the WAV.
Convert(r) ==
    /\ pc[r] = "convert"
    /\ LET temp_wav == TempWav(idx[r])
           video_file == video_files[r][idx[r] + 1]
           tfs == Append(temp_files[r], temp_wav)
       IN  /\ temp_files' = [temp_files EXCEPT ![r] = tfs]
           /\ \E ok \in BOOLEAN :
                IF ok
                THEN /\ temp' = [temp EXCEPT ![temp_wav] = Wav(r, video_file, FALSE)]
                     /\ pc' = [pc EXCEPT ![r] = "transcribe"]
                     /\ err' = err
                ELSE \E left \in {temp[temp_wav], Wav(r, video_file, TRUE)} :
                        Raised(r, "ffmpeg.Error",
                               [temp EXCEPT ![temp_wav] = left], tfs)
    /\ UNCHANGED <<video_files, idx, simplified_words, response,
                   editing_instructions, inputs, result, llm_calls,
                   transcodes, cwd_out, final_out>>

\* The WAV is read back and transcribed; the words are appended.
Transcribe(r) ==
    /\ pc[r] = "transcribe"
    /\ LET temp_wav == TempWav(idx[r])
           video_file == video_files[r][idx[r] + 1]
       IN  \E ok \in BOOLEAN :
             IF temp[temp_wav].kind = "none"
             THEN /\ Raised(r, "FileNotFoundError", temp, temp_files[r])
                  /\ UNCHANGED <<idx, simplified_words>>
             ELSE IF ok
             THEN /\ simplified_words' =
                        [simplified_words EXCEPT
                           ![r] = @ \o Words(temp[temp_wav].src, video_file)]
                  /\ idx' = [idx EXCEPT ![r] = @ + 1]
                  /\ pc' = [pc EXCEPT ![r] =
                              IF idx[r] + 1 < Len(video_files[r])
                              THEN "convert" ELSE "decide"]
                  /\ UNCHANGED <<err, temp>>
             ELSE /\ Raised(r, "TranscriptionError", temp, temp_files[r])
                  /\ UNCHANGED <<idx, simplified_words>>
    /\ UNCHANGED <<video_files, temp_files, response, editing_instructions,
                   inputs, result, llm_calls, transcodes, cwd_out, final_out>>

\* anthropic_client.messages.create(...): one call, any answer or an error.
Decide(r, P) ==
    /\ pc[r] = "decide"
    /\ llm_calls' = [llm_calls EXCEPT ![r] = @ + 1]
    /\ \E ok \in BOOLEAN :
         IF ok
         THEN /\ \E resp \in Responses(P) :
                    response' = [response EXCEPT ![r] = resp]
              /\ pc' = [pc EXCEPT ![r] = "parse"]
              /\ UNCHANGED <<err, temp>>
         ELSE /\ Raised(r, "APIError", temp, temp_files[r])
              /\ UNCHANGED response
    /\ UNCHANGED <<video_files, idx, temp_files, simplified_words,
                   editing_instructions, inputs, result, transcodes,
                   cwd_out, final_out>>

\* json.loads, the lookup of 'transcription_sources', the list of inputs.
Parse(r) ==
    /\ pc[r] = "parse"
    /\ IF response[r].kind # "json"
       THEN /\ Raised(r, "JSONDecodeError", temp, temp_files[r])
            /\ UNCHANGED <<editing_instructions, inputs>>
       ELSE IF ~HasKey(response[r], "transcription_sources")
       THEN /\ Raised(r, "KeyError", temp, temp_files[r])
            /\ UNCHANGED <<editing_instructions, inputs>>
       ELSE /\ editing_instructions' =
                  [editing_instructions EXCEPT
                     ![r] = response[r].transcription_sources]
            /\ inputs' = [inputs EXCEPT
                            ![r] = Inputs(response[r].transcription_sources)]
            /\ pc' = [pc EXCEPT ![r] =
                        IF Inputs(response[r].transcription_sources) # <<>>
                        THEN "run" ELSE "report"]
            /\ UNCHANGED <<err, temp>>
    /\ UNCHANGED <<video_files, idx, temp_files, simplified_words, response,
                   result, llm_calls, transcodes, cwd_out, final_out>>

\* if inputs: the two concats and output.run(), which overwrites
\* ai_output.mp4.  A failed run leaves the path as it was or leaves what it
\* had written so far.
Run(r) ==
    /\ pc[r] = "run"
    /\ transcodes' = [transcodes EXCEPT ![r] = @ + 1]
    /\ LET stream_pairs == StreamPairs(inputs[r])
           v1 == ConcatVideo(stream_pairs)
           a1 == ConcatAudio(stream_pairs)
       IN  \E ok \in BOOLEAN :
             IF ok
             THEN /\ cwd_out' = Mp4(r, v1, a1, FALSE)
                  /\ pc' = [pc EXCEPT ![r] = "report"]
                  /\ UNCHANGED <<err, temp>>
             ELSE /\ \E left \in {cwd_out, Mp4(r, v1, a1, TRUE)} :
                        cwd_out' = left
                  /\ Raised(r, "ffmpeg.Error", temp, temp_files[r])
    /\ UNCHANGED <<video_files, idx, temp_files, simplified_words, response,
                   editing_instructions, inputs, result, llm_calls, final_out>>

\* if os.path.exists(output_file): probe;  then the returned dict, whose
\* construction looks up 'desired_transcription'.
Report(r) ==
    /\ pc[r] = "report"
    /\ \E probe_ok \in BOOLEAN :
         IF cwd_out.kind = "mp4" /\ cwd_out.partial /\ ~probe_ok
         THEN /\ Raised(r, "ffmpeg.Error", temp, temp_files[r])
              /\ UNCHANGED result
         ELSE IF ~HasKey(response[r], "desired_transcription")
         THEN /\ Raised(r, "KeyError", temp, temp_files[r])
              /\ UNCHANGED result
         ELSE /\ result' = [result EXCEPT ![r] =
                    [returned |-> TRUE, output_file |-> "ai_output.mp4",
                     word_timestamps |-> response[r].transcription_sources]]
              /\ temp' = Cleanup(temp, temp_files[r])
              /\ pc' = [pc EXCEPT ![r] = "returned"]
              /\ UNCHANGED err
    /\ UNCHANGED <<video_files, idx, temp_files, simplified_words, response,
                   editing_instructions, inputs, llm_calls, transcodes,
                   cwd_out, final_out>>

\* edit_videos after process_videos returned: shutil.move of the output to
\* outputs/ai_output.mp4, then EditResponse(...), built without its
\* required field original_transcripts.
Move(r) ==
    /\ pc[r] = "returned"
    /\ pc' = [pc EXCEPT ![r] = "http500"]
    /\ IF cwd_out.kind = "none"
       THEN /\ err' = [err EXCEPT ![r] = "FileNotFoundError"]
            /\ UNCHANGED <<cwd_out, final_out>>
       ELSE /\ final_out' = cwd_out
            /\ cwd_out' = NoOut
            /\ err' = [err EXCEPT ![r] = "ValidationError"]
    /\ UNCHANGED <<video_files, idx, temp_files, simplified_words, response,
                   editing_instructions, inputs, result, llm_calls,
                   transcodes, temp>>

\* process_videos after its call, and the handler's move.
Rest(r, P) ==
    \/ Convert(r)
    \/ Transcribe(r)
    \/ Decide(r, P)
    \/ Parse(r)
    \/ Run(r)
    \/ Report(r)
    \/ Move(r)

Step(r, lists, P) ==
    \/ Start(r, lists)
    \/ Rest(r, P)

\* One request, every plan within the bounds.
Next == Step("r1", VideoFileLists, Plans(MaxPlan) \cup ScenarioPlans)
Spec == Init /\ [][Next]_vars

\* Two requests, the second handled after the first has ended.
Ended(q) == pc[q] \in {"idle", "raised", "http500"}
StartInTurn(r, lists) ==
    /\ \A q \in Requests \ {r} : Ended(q)
    /\ Start(r, lists)
NextSerial ==
    \E r \in Requests :
        \/ StartInTurn(r, VideoFileLists)
        \/ Rest(r, ConcPlans)
SpecSerial == Init /\ [][NextSerial]_vars

\* Two requests side by side, sharing the working directory.
NextConc == \E r \in Requests : Step(r, VideoFileLists, ConcPlans)
SpecConc == Init /\ [][NextConc]_vars

\* ---------------------------------------------------------------- claims

Finished == {"raised", "returned", "http500"}
Invalid(c) == c.start >= c.end
HasInvalid(plan) == \E i \in DOMAIN plan : Invalid(plan[i])
HasUnknown(plan, sources) == \E i \in DOMAIN plan : plan[i].file \notin Range(sources)

\* C1: a plan holding an interval with start >= end is rejected with
\* InvalidInterval and the assembly run is never invoked for that request.
C1_InvalidIntervalRejected ==
    \A r \in Requests :
        HasInvalid(editing_instructions[r]) =>
            /\ transcodes[r] = 0
            /\ pc[r] \in Finished =>
                  pc[r] = "raised" /\ err[r] = "InvalidInterval"

\* C2: a plan holding an interval whose file is not a source file of the
\* request fails with UnknownSourceReference and is never assembled.
C2_UnknownSourceRejected ==
    \A r \in Requests :
        HasUnknown(editing_instructions[r], video_files[r]) =>
            /\ transcodes[r] = 0
            /\ pc[r] \in Finished =>
                  pc[r] = "raised" /\ err[r] = "UnknownSourceReference"

\* C3: in every output file the video track and the audio track have the
\* same number of clips, and the i-th video clip and the i-th audio clip are
\* the same (file, start, duration) cut.
PairedTracks(f) ==
    /\ Len(f.video) = Len(f.audio)
    /\ \A i \in DOMAIN f.video :
          /\ f.video[i].stream = "v" /\ f.audio[i].stream = "a"
          /\ f.video[i].file = f.audio[i].file
          /\ f.video[i].ss = f.audio[i].ss
          /\ f.video[i].t = f.audio[i].t
C3_StreamsPaired == PairedTracks(cwd_out) /\ PairedTracks(final_out)
\* An output of two clips cut from different files.
C3_Witness ==
    /\ cwd_out.kind = "mp4" /\ ~cwd_out.partial
    /\ Len(cwd_out.video) = 2
    /\ cwd_out.video[1].file # cwd_out.video[2].file
    /\ cwd_out.audio[1].file = cwd_out.video[1].file

\* C4: the clips of a written output are the plan's intervals, one clip per
\* interval, in the order of the plan.
InPlanOrder(f) ==
    f.kind = "mp4" =>
        LET plan == editing_instructions[f.by]
        IN  /\ Len(f.video) = Len(plan)
            /\ \A i \in DOMAIN plan :
                  /\ f.video[i].file = plan[i].file
                  /\ f.video[i].ss = plan[i].start
                  /\ f.video[i].ss + f.video[i].t = plan[i].end
C4_PlanOrderPreserved == InPlanOrder(cwd_out) /\ InPlanOrder(final_out)
\* The alternating plan fileA[0,1], fileB[0,1], fileA[1,2] was assembled.
C4_Witness ==
    /\ cwd_out.kind = "mp4" /\ ~cwd_out.partial
    /\ Len(cwd_out.video) = 3
    /\ cwd_out.video[1].file = "fileA" /\ cwd_out.video[1].ss = 0
    /\ cwd_out.video[2].file = "fileB" /\ cwd_out.video[2].ss = 0
    /\ cwd_out.video[3].file = "fileA" /\ cwd_out.video[3].ss = 1

\* C5 (as claimed): the inputs that reach assembly are the plan with every
\* pair of consecutive overlapping same-file intervals merged into one.
C5_OverlapsMerged ==
    \A r \in Requests :
        LET m == MergeOverlaps(editing_instructions[r])
        IN  /\ Len(inputs[r]) = Len(m)
            /\ \A i \in DOMAIN m :
                  /\ inputs[r][i].file = m[i].file
                  /\ inputs[r][i].ss = m[i].start
                  /\ inputs[r][i].ss + inputs[r][i].t = m[i].end
\* C5 (amended): two consecutive overlapping same-file intervals reach
\* assembly as two inputs, each with its own start and end, so the plan and
\* the inputs have the same length.
C5_OverlapsKeptAsGiven ==
    \A r \in Requests :
        LET plan == editing_instructions[r]
        IN  \A i \in 1 .. Len(plan) - 1 :
                Overlap(plan[i], plan[i + 1]) =>
                    /\ Len(inputs[r]) = Len(plan)
                    /\ \A j \in {i, i + 1} :
                          /\ inputs[r][j].file = plan[j].file
                          /\ inputs[r][j].ss = plan[j].start
                          /\ inputs[r][j].ss + inputs[r][j].t = plan[j].end
\* fileA[0,2], fileA[1,3] was assembled into an output of two clips.
C5_Witness ==
    /\ editing_instructions["r1"] =
          <<[file |-> "fileA", start |-> 0, end |-> 2],
            [file |-> "fileA", start |-> 1, end |-> 3]>>
    /\ cwd_out.kind = "mp4" /\ ~cwd_out.partial /\ cwd_out.by = "r1"
    /\ Len(cwd_out.video) = 2

Malformed(resp) ==
    \/ resp.kind = "text"
    \/ resp.kind = "json" /\ resp.keys # Keys
\* The specification's error taxonomy, read generously: both exceptions of
\* the parsing code count as InvalidEditPlanFormat.
ErrorClass(e) ==
    CASE e \in {"JSONDecodeError", "KeyError"} -> "InvalidEditPlanFormat"
      [] e = "ffmpeg.Error" -> "EncodeFailure"
      [] OTHER -> e
C7_NoPartialOutputPromoted == ~final_out.partial

\* C8: when process_videos has returned or raised, none of the
\* temp_audio_<idx>.wav files the request wrote exists any more.
C8_TempFilesRemoved ==
    \A r \in Requests :
        pc[r] \in Finished =>
            \A n \in TempNames : temp[n].by # r
\* A request whose second file failed in transcription, after both WAVs
\* were written.
C8_Witness ==
    \E r \in Requests :
        /\ pc[r] = "raised" /\ err[r] = "TranscriptionError"
        /\ Len(temp_files[r]) = 2
        /\ idx[r] = 1

\* C9: no step of one request overwrites or deletes a file written by the
\* other, no request transcribes a WAV the other wrote, and the output at
\* hand when a request returns is the one its own assembly run wrote.
Acted(r) == pc'[r] # pc[r]
C9_RequestsIndependent ==
    [][\A r \in Requests :
          /\ \A n \in TempNames :
                (temp[n].by = r /\ temp'[n] # temp[n]) => Acted(r)
          /\ (cwd_out.by = r /\ cwd_out' # cwd_out) => Acted(r)
          /\ (final_out.by = r /\ final_out' # final_out) => Acted(r)
          /\ (Acted(r) /\ pc[r] = "transcribe"
                /\ temp[TempWav(idx[r])].kind # "none")
                => temp[TempWav(idx[r])].by = r
          /\ (Acted(r) /\ pc'[r] = "returned" /\ cwd_out.kind # "none")
                => cwd_out.by = r
      ]_vars

\* C10: a request that returned a result has a plan of at least one
\* interval, and ai_output.mp4 exists and was written by its own run.
C10_ResultHasOwnOutput ==
    \A r \in Requests :
        pc[r] = "returned" =>
            /\ editing_instructions[r] # <<>>
            /\ cwd_out.kind = "mp4" /\ cwd_out.by = r

=============================================================================
